---- MODULE Spec2Model ----
(***************************************************************************)
(* The inbound validation pipeline of the graphcast agent:                 *)
(*   handle_signal            (graphcast_agent/waku_handling.rs)           *)
(*   GraphcastMessage::valid_sender / valid_time / valid_hash /            *)
(*   recover_sender_address / valid_nonce (gossip_agent/message_typing.rs) *)
(* Every handler invocation is a task; a task's position in the code is    *)
(* pc[t].  The two shared ledgers are old_message_ids (a tokio async       *)
(* mutex around a set) and nonces (a std mutex around a two-level map).    *)
(***************************************************************************)
EXTENDS Integers, Sequences, FiniteSets, TLC

\* ------------------------------------------------------------- bounds
NumTasks == 2
MaxCalls == 3
MaxNonce == 1
MaxNow == 1
\* the replay window; its value is set outside the files modelled here
MSG_REPLAY_LIMIT == 2
\* width of the signed integers of the freshness arithmetic (i64, scaled)
IntBits == 4
\* longest list of peers, and of node addresses, a call is given
MaxPeers == 3

Tasks == 1..NumTasks
NoTask == 0

MessageIds == {"m1", "m2"}
Identifiers == {"sg1", "sg2"}
Keys == {"k1", "k2"}
Payloads == {"p1"}
NoPayload == "none"
Hashes == {"h1", "h2"}
\* the hash the trusted provider holds for the block the envelopes name
TrustedHash == "h1"

AddressTable == [k1 |-> "0xaaa", k2 |-> "0xbbb"]
Addresses == {AddressTable[k] : k \in Keys}
GarbageAddress == "0xfff"

\* ------------------------------------------------------------- values
MalformedSignature == [ok |-> FALSE, signer |-> "", over |-> ""]
Signatures ==
    {MalformedSignature} \cup [ok : {TRUE}, signer : Keys, over : Payloads]

Envelopes ==
    [identifier : Identifiers,
     payload : Payloads \cup {NoPayload},
     nonce : 0..MaxNonce,
     block_hash : Hashes,
     signature : Signatures]

NoEnvelope ==
    [identifier |-> "", payload |-> NoPayload, nonce |-> 0,
     block_hash |-> "", signature |-> MalformedSignature]

\* A transport signal: a message event carries a transport message id and
\* payload bytes that decode to an envelope or do not.  msg is the
\* envelope the bytes decoded to, once they are decoded.
Signals ==
    [event : {"WakuMessage"}, message_id : MessageIds,
     decodable : BOOLEAN, msg : {NoEnvelope}]
    \cup [event : {"Unrecognized", "Other"}, message_id : {""},
          decodable : {FALSE}, msg : {NoEnvelope}]

NoSignal ==
    [event |-> "", message_id |-> "", decodable |-> FALSE, msg |-> NoEnvelope]

EmptyMap == <<>>

Insert(map, k, v) ==
    [x \in (DOMAIN map) \cup {k} |-> IF x = k THEN v ELSE map[x]]

NoEntry == [some |-> FALSE, val |-> EmptyMap]
Some(v) == [some |-> TRUE, val |-> v]

NoLocals ==
    [address |-> "", nps |-> NoEntry, registry |-> "", network |-> "",
     block_hash |-> ""]

NoResult == [variant |-> "", reason |-> ""]
Ok == [variant |-> "Ok", reason |-> ""]
InvalidMessage(r) == [variant |-> "InvalidMessage", reason |-> r]
Panic(r) == [variant |-> "panic", reason |-> r]
\* an anyhow error returned by a direct call of a validation method
Err(r) == [variant |-> "Err", reason |-> r]
NoProbe == [fn |-> "", timestamp |-> 0, nonce |-> 0, out |-> ""]
NoReturn ==
    [task |-> NoTask, value |-> NoResult, sig |-> NoSignal, address |-> ""]

VARIABLES
    pc,            \* task -> position in the code
    op,            \* task -> "handle_signal" | "valid_nonce" | ""
    sig,           \* task -> the signal (handle_signal) being handled
    loc,           \* task -> locals of the running call
    returned,      \* what the step just taken returned to its caller, if it
                   \* ended a call: the value, with the call's task,
                   \* signal and recovered address
    old_message_ids, \* GraphcastAgent.old_message_ids: the set inside the mutex
    idsOwner,      \* holder of the old_message_ids guard, or NoTask
    nonces,        \* the NoncesMap inside Arc<Mutex<NoncesMap>>
    noncesOwner,   \* holder of the nonces guard, or NoTask
    now,           \* the value Utc::now().timestamp() returned last
    calls,         \* number of calls started
    accepted,      \* history: (identifier, address) -> the nonces accepted,
                   \* in acceptance order
    passed,        \* history: message id -> deliveries that went past dedup
    delivered,     \* history: message id -> a delivery of it has completed
    decoded,       \* history: message id -> a delivery of it that decoded
                   \* has completed
    probe          \* a function applied to drawn arguments, and its value

vars ==
    <<pc, op, sig, loc, returned, old_message_ids, idsOwner, nonces,
      noncesOwner, now, calls, accepted, passed, delivered, decoded,
      probe>>

\* ------------------------------------------------------ pure functions

\* mutant of Recover: the signer comes out whatever was signed
Recover_IgnoresPayload(signature, payload) == AddressTable[signature.signer]

\* Signature::recover over the payload's eip712 hash: the signer's address
\* when the signature was made over this payload, some other address
\* when it was made over another one.
Recover(signature, payload) ==
    IF signature.over = payload
    THEN AddressTable[signature.signer]
    ELSE GarbageAddress

\* GraphcastMessage::recover_sender_address.  Signature::from_str runs
\* first; the closure that reads the payload (and `expect`s it) runs only
\* when the string parsed.
recover_sender_address(msg) ==
    IF ~msg.signature.ok
    THEN [kind |-> "Err", address |-> ""]
    ELSE IF msg.payload = NoPayload
    THEN [kind |-> "Panic", address |-> ""]
    ELSE [kind |-> "Ok", address |-> Recover(msg.signature, msg.payload)]

MinInt == -(2 ^ (IntBits - 1))
MaxInt == (2 ^ (IntBits - 1)) - 1
Overflows(x) == x < MinInt \/ x > MaxInt
Wrap(x) == ((x - MinInt) % (2 ^ IntBits)) + MinInt

\* (0..MSG_REPLAY_LIMIT).contains(&message_age): the end is excluded
\* mutant of InReplayRange: the end of the range included
InReplayRange_Inclusive(message_age) ==
    0 <= message_age /\ message_age <= MSG_REPLAY_LIMIT

InReplayRange(message_age) ==
    0 <= message_age /\ message_age < MSG_REPLAY_LIMIT

\* GraphcastMessage::valid_time.  The subtraction is on signed integers
\* of IntBits bits: a build with overflow checks panics when it overflows,
\* a build without them wraps.
valid_time(overflow_checks, timestamp, nonce) ==
    LET message_age == timestamp - nonce
    IN  IF Overflows(message_age) /\ overflow_checks
        THEN "Panic"
        ELSE IF InReplayRange(Wrap(message_age)) THEN "Ok" ELSE "Err"

\* mutant of valid_hash: the two hashes are not compared
valid_hash_NoCompare(msg, block_hash) == "Ok"

\* GraphcastMessage::valid_hash
valid_hash(msg, block_hash) ==
    IF msg.block_hash = block_hash THEN "Ok" ELSE "Err"

\* The tail of GraphcastMessage::valid_sender: what the network subgraph
\* answered ("satisfied", "insufficient") or that the query failed.
\* mutant of stake_check: a failed network query counts as enough stake
stake_check_ErrorPasses(network) ==
    CASE network = "insufficient" -> "stake"
      [] OTHER -> "Ok"

stake_check(network) ==
    CASE network = "satisfied" -> "Ok"
      [] network = "insufficient" -> "stake"
      [] OTHER -> "network_query"

\* The head of valid_sender's second half: what the registry answered.
registry_check(registry) ==
    IF registry = "indexer" THEN "Ok" ELSE "registry_query"

\* mutants of prepare_nonces: an address already in the map keeps its
\* nonce; the map returned holds the new entry only
prepare_nonces_KeepsOld(nonces_per_subgraph, address, nonce) ==
    IF address \in DOMAIN nonces_per_subgraph
    THEN nonces_per_subgraph
    ELSE Insert(nonces_per_subgraph, address, nonce)
prepare_nonces_Fresh(nonces_per_subgraph, address, nonce) ==
    Insert(EmptyMap, address, nonce)

\* prepare_nonces: a clone of the per-subgraph map with one entry set
prepare_nonces(nonces_per_subgraph, address, nonce) ==
    Insert(nonces_per_subgraph, address, nonce)

\* mutants of IsStale: the comparison turned round; no comparison at all
IsStale_Reversed(recorded, nonce) == recorded < nonce
IsStale_Never(recorded, nonce) == FALSE

\* `nonce > &self.nonce`
IsStale(recorded, nonce) == recorded > nonce

\* mutant of nonce_decision: a first observation is accepted
nonce_decision_AcceptsFirst(nps, address, nonce) ==
    IF ~nps.some \/ address \notin DOMAIN nps.val
    THEN [outcome |-> "Ok", write |-> TRUE,
          updated |-> prepare_nonces(nps.val, address, nonce)]
    ELSE IF IsStale(nps.val[address], nonce)
    THEN [outcome |-> "stale_nonce", write |-> FALSE, updated |-> nps.val]
    ELSE [outcome |-> "Ok", write |-> TRUE,
          updated |-> prepare_nonces(nps.val, address, nonce)]

\* mutant of nonce_decision: an acceptance does not write the map
nonce_decision_NoWrite(nps, address, nonce) ==
    IF ~nps.some
    THEN [outcome |-> "first_subgraph", write |-> TRUE,
          updated |-> prepare_nonces(EmptyMap, address, nonce)]
    ELSE IF address \notin DOMAIN nps.val
    THEN [outcome |-> "first_address", write |-> TRUE,
          updated |-> prepare_nonces(nps.val, address, nonce)]
    ELSE IF IsStale(nps.val[address], nonce)
    THEN [outcome |-> "stale_nonce", write |-> FALSE, updated |-> nps.val]
    ELSE [outcome |-> "Ok", write |-> FALSE, updated |-> nps.val]

\* The match of GraphcastMessage::valid_nonce on what `nonces.get`
\* returned for the identifier: the outcome, whether the map is written,
\* and the per-subgraph map that is inserted.
nonce_decision(nps, address, nonce) ==
    IF ~nps.some
    THEN [outcome |-> "first_subgraph", write |-> TRUE,
          updated |-> prepare_nonces(EmptyMap, address, nonce)]
    ELSE IF address \notin DOMAIN nps.val
    THEN [outcome |-> "first_address", write |-> TRUE,
          updated |-> prepare_nonces(nps.val, address, nonce)]
    ELSE IF IsStale(nps.val[address], nonce)
    THEN [outcome |-> "stale_nonce", write |-> FALSE, updated |-> nps.val]
    ELSE [outcome |-> "Ok", write |-> TRUE,
          updated |-> prepare_nonces(nps.val, address, nonce)]

\* `nonces.get(self.identifier)`
GetSubgraph(map, identifier) ==
    IF identifier \in DOMAIN map THEN Some(map[identifier]) ELSE NoEntry

\* ------------------------------------------------------------- state

Init ==
    /\ pc = [t \in Tasks |-> "idle"]
    /\ op = [t \in Tasks |-> ""]
    /\ sig = [t \in Tasks |-> NoSignal]
    /\ loc = [t \in Tasks |-> NoLocals]
    /\ returned = NoReturn
    /\ old_message_ids = {}
    /\ idsOwner = NoTask
    /\ nonces = EmptyMap
    /\ noncesOwner = NoTask
    /\ now = 0
    /\ calls = 0
    /\ accepted = EmptyMap
    /\ passed = [m \in MessageIds |-> 0]
    /\ delivered = [m \in MessageIds |-> FALSE]
    /\ decoded = [m \in MessageIds |-> FALSE]
    /\ probe = NoProbe

Msg(t) == sig[t].msg
AcceptedOf(key) == IF key \in DOMAIN accepted THEN accepted[key] ELSE <<>>
InHandler(t) == op[t] = "handle_signal"

\* `old_message_ids.lock().await` can complete
\* mutant of IdsLockFree: the set is read and written without the lock
IdsLockFree_NoLock == TRUE

IdsLockFree == idsOwner = NoTask
\* mutant of NoncesLockFree: the map is read and written without the lock
NoncesLockFree_NoLock == TRUE

\* `nonces.lock()` can complete
NoncesLockFree == noncesOwner = NoTask

\* mutant of Finish: the call returns and its guards are not dropped
Finish_KeepsGuards(t, res) ==
    /\ pc' = [pc EXCEPT ![t] = "idle"]
    /\ op' = [op EXCEPT ![t] = ""]
    /\ returned' = [task |-> t, value |-> res, sig |-> sig[t],
                    address |-> loc[t].address]
    /\ UNCHANGED <<idsOwner, noncesOwner>>
    /\ delivered' =
          IF InHandler(t) /\ sig[t].event = "WakuMessage"
          THEN [delivered EXCEPT ![sig[t].message_id] = TRUE]
          ELSE delivered
    /\ decoded' =
          IF InHandler(t) /\ sig[t].event = "WakuMessage" /\ sig[t].decodable
          THEN [decoded EXCEPT ![sig[t].message_id] = TRUE]
          ELSE decoded
    /\ sig' = [sig EXCEPT ![t] = NoSignal]
    /\ loc' = [loc EXCEPT ![t] = NoLocals]

\* The call returns `res`: every guard the task holds is dropped and the
\* signal goes out of scope.
Finish(t, res) ==
    /\ pc' = [pc EXCEPT ![t] = "idle"]
    /\ op' = [op EXCEPT ![t] = ""]
    /\ returned' = [task |-> t, value |-> res, sig |-> sig[t],
                    address |-> loc[t].address]
    /\ idsOwner' = IF idsOwner = t THEN NoTask ELSE idsOwner
    /\ noncesOwner' = IF noncesOwner = t THEN NoTask ELSE noncesOwner
    /\ delivered' =
          IF InHandler(t) /\ sig[t].event = "WakuMessage"
          THEN [delivered EXCEPT ![sig[t].message_id] = TRUE]
          ELSE delivered
    /\ decoded' =
          IF InHandler(t) /\ sig[t].event = "WakuMessage" /\ sig[t].decodable
          THEN [decoded EXCEPT ![sig[t].message_id] = TRUE]
          ELSE decoded
    /\ sig' = [sig EXCEPT ![t] = NoSignal]
    /\ loc' = [loc EXCEPT ![t] = NoLocals]

\* An error of the validation: handle_signal maps every one of them to
\* WakuHandlingError::InvalidMessage(e.to_string()).
Rejection(t, reason) ==
    IF InHandler(t) THEN InvalidMessage(reason) ELSE Err(reason)

SetLoc(t, l) == loc' = [loc EXCEPT ![t] = l]

\* The task moves on inside its call: nothing is returned by this step.
Goto(t, label) ==
    /\ pc' = [pc EXCEPT ![t] = label]
    /\ returned' = NoReturn

\* ------------------------------------------------- handle_signal

\* The transport delivers an event: handle_signal is called and waits
\* for the old_message_ids guard.
Deliver(t) ==
    /\ pc[t] = "idle"
    /\ calls < MaxCalls
    /\ calls' = calls + 1
    /\ op' = [op EXCEPT ![t] = "handle_signal"]
    /\ Goto(t, "lock_ids")
    /\ UNCHANGED <<sig, loc, old_message_ids, idsOwner, nonces, noncesOwner,
                   now, accepted, passed, delivered, decoded, probe>>

\* `let mut ids = old_message_ids.lock().await;`  The signal is private
\* to the call and is not looked at before this point, so it is drawn
\* here.
LockIds(t) ==
    /\ pc[t] = "lock_ids"
    /\ IdsLockFree
    /\ idsOwner' = t
    /\ \E s \in Signals : sig' = [sig EXCEPT ![t] = s]
    /\ Goto(t, "match_event")
    /\ UNCHANGED <<op, loc, old_message_ids, nonces, noncesOwner, now,
                   calls, accepted, passed, delivered, decoded, probe>>

\* mutant of MatchEvent: the transport id is marked as seen before the
\* event is matched and decoded
MatchEvent_MarksSeen(t) ==
    /\ pc[t] = "match_event"
    /\ old_message_ids' = old_message_ids \cup {sig[t].message_id}
    /\ IF sig[t].event = "WakuMessage" /\ sig[t].decodable
       THEN /\ \E m \in Envelopes : sig' = [sig EXCEPT ![t].msg = m]
            /\ Goto(t, "ids_contains")
            /\ UNCHANGED <<op, loc, idsOwner, noncesOwner, delivered,
                           decoded>>
       ELSE Finish(t, InvalidMessage("decode"))
    /\ UNCHANGED <<nonces, now, calls, accepted, passed, probe>>

\* `match signal.event()` and the decode of the payload bytes into the
\* envelope they hold
MatchEvent(t) ==
    /\ pc[t] = "match_event"
    /\ IF sig[t].event = "WakuMessage" /\ sig[t].decodable
       THEN /\ \E m \in Envelopes : sig' = [sig EXCEPT ![t].msg = m]
            /\ Goto(t, "ids_contains")
            /\ UNCHANGED <<op, loc, idsOwner, noncesOwner, delivered,
                           decoded>>
       ELSE Finish(t, InvalidMessage(
                CASE sig[t].event = "WakuMessage" -> "decode"
                  [] sig[t].event = "Unrecognized" -> "unrecognized_event"
                  [] OTHER -> "unrecognized_signal"))
    /\ UNCHANGED <<old_message_ids, nonces, now, calls, accepted,
                   passed, probe>>

\* `if ids.contains(event.message_id()) { return Err(..) }`
\* mutant of IdsContains: the set is not consulted
IdsContains_Skip(t) ==
    /\ pc[t] = "ids_contains"
    /\ Goto(t, "ids_insert")
    /\ UNCHANGED <<op, sig, loc, old_message_ids, idsOwner, nonces,
                   noncesOwner, now, calls, accepted, passed, delivered,
                   decoded, probe>>

IdsContains(t) ==
    /\ pc[t] = "ids_contains"
    /\ IF sig[t].message_id \in old_message_ids
       THEN Finish(t, InvalidMessage("repeated"))
       ELSE /\ Goto(t, "ids_insert")
            /\ UNCHANGED <<op, sig, loc, idsOwner, noncesOwner, delivered,
                           decoded>>
    /\ UNCHANGED <<old_message_ids, nonces, now, calls, accepted,
                   passed, probe>>

\* ------------------------------------------- check_message_validity

\* The order of the checks: sender authorization, freshness, hash
\* agreement (with its trusted lookup), nonce ordering.
NextCheck(stage) ==
    CASE stage = "ids_insert" -> "valid_sender"
      [] stage = "valid_sender" -> "valid_time"
      [] stage = "valid_time" -> "await_block_hash"
      [] stage = "valid_hash" -> "valid_nonce"

\* mutant of IdsInsert: the id is not recorded before the validity checks
IdsInsert_NoInsert(t) ==
    /\ pc[t] = "ids_insert"
    /\ passed' = [passed EXCEPT ![sig[t].message_id] = @ + 1]
    /\ Goto(t, NextCheck("ids_insert"))
    /\ UNCHANGED <<op, sig, loc, old_message_ids, idsOwner, nonces,
                   noncesOwner, now, calls, accepted, delivered, decoded,
                   probe>>

\* `ids.insert(event.message_id().clone());` and the call of
\* check_message_validity
IdsInsert(t) ==
    /\ pc[t] = "ids_insert"
    /\ old_message_ids' = old_message_ids \cup {sig[t].message_id}
    /\ passed' = [passed EXCEPT ![sig[t].message_id] = @ + 1]
    /\ Goto(t, NextCheck("ids_insert"))
    /\ UNCHANGED <<op, sig, loc, idsOwner, nonces, noncesOwner, now, calls,
                   accepted, delivered, decoded, probe>>

\* valid_sender: `self.recover_sender_address()?`, then the registry
\* query is sent and the task is suspended at its `.await`
ValidSender(t) ==
    /\ pc[t] = "valid_sender"
    /\ LET r == recover_sender_address(Msg(t))
       IN  IF r.kind = "Ok"
           THEN /\ SetLoc(t, [loc[t] EXCEPT !.address = r.address])
                /\ Goto(t, "await_registry")
                /\ UNCHANGED <<op, sig, idsOwner, noncesOwner, delivered,
                               decoded>>
           ELSE Finish(t, IF r.kind = "Err"
                          THEN Rejection(t, "signature")
                          ELSE Panic("no_payload"))
    /\ UNCHANGED <<old_message_ids, nonces, now, calls, accepted,
                   passed, probe>>

\* query_registry_indexer(..).await completes with an indexer or an error
RegistryReturn(t) ==
    /\ pc[t] = "await_registry"
    /\ \E r \in {"indexer", "error"} :
          SetLoc(t, [loc[t] EXCEPT !.registry = r])
    /\ Goto(t, "registry_answer")
    /\ UNCHANGED <<op, sig, old_message_ids, idsOwner, nonces, noncesOwner,
                   now, calls, accepted, passed, delivered, decoded,
                   probe>>

\* the `?` on the registry answer; then the network query is sent
RegistryAnswer(t) ==
    /\ pc[t] = "registry_answer"
    /\ IF registry_check(loc[t].registry) = "Ok"
       THEN /\ Goto(t, "await_network")
            /\ UNCHANGED <<op, sig, loc, idsOwner, noncesOwner, delivered,
                           decoded>>
       ELSE Finish(t, Rejection(t, registry_check(loc[t].registry)))
    /\ UNCHANGED <<old_message_ids, nonces, now, calls, accepted,
                   passed, probe>>

\* query_network_subgraph(..).await completes
NetworkReturn(t) ==
    /\ pc[t] = "await_network"
    /\ \E r \in {"satisfied", "insufficient", "error"} :
          SetLoc(t, [loc[t] EXCEPT !.network = r])
    /\ Goto(t, "network_answer")
    /\ UNCHANGED <<op, sig, old_message_ids, idsOwner, nonces, noncesOwner,
                   now, calls, accepted, passed, delivered, decoded,
                   probe>>

\* the `?` on the network answer and `.stake_satisfy_requirement()`
NetworkAnswer(t) ==
    /\ pc[t] = "network_answer"
    /\ IF stake_check(loc[t].network) = "Ok"
       THEN /\ Goto(t, NextCheck("valid_sender"))
            /\ UNCHANGED <<op, sig, loc, idsOwner, noncesOwner, delivered,
                           decoded>>
       ELSE Finish(t, Rejection(t, stake_check(loc[t].network)))
    /\ UNCHANGED <<old_message_ids, nonces, now, calls, accepted,
                   passed, probe>>

\* Utc::now().timestamp(): the clock never goes back between two reads
ClockReads == now..MaxNow

\* mutant of ValidTime: the clock is read and the nonce is not compared
ValidTime_NoCheck(t) ==
    /\ pc[t] = "valid_time"
    /\ \E timestamp \in ClockReads : now' = timestamp
    /\ Goto(t, NextCheck("valid_time"))
    /\ UNCHANGED <<op, sig, loc, idsOwner, noncesOwner, delivered, decoded,
                   old_message_ids, nonces, calls, accepted, passed,
                   probe>>

\* valid_time, in a build with or without overflow checks
ValidTime(t) ==
    /\ pc[t] = "valid_time"
    /\ \E timestamp \in ClockReads, overflow_checks \in BOOLEAN :
          LET r == valid_time(overflow_checks, timestamp, Msg(t).nonce)
          IN  /\ now' = timestamp
              /\ IF r = "Ok"
                 THEN /\ Goto(t, NextCheck("valid_time"))
                      /\ UNCHANGED <<op, sig, loc, idsOwner, noncesOwner,
                                     delivered, decoded>>
                 ELSE Finish(t, IF r = "Err"
                                THEN Rejection(t, "time")
                                ELSE Panic("overflow"))
    /\ UNCHANGED <<old_message_ids, nonces, calls, accepted, passed,
                   probe>>

\* the trusted block hash lookup completes with the hash or an error
BlockHashReturn(t) ==
    /\ pc[t] = "await_block_hash"
    /\ \E h \in {TrustedHash, "error"} :
          SetLoc(t, [loc[t] EXCEPT !.block_hash = h])
    /\ Goto(t, "valid_hash")
    /\ UNCHANGED <<op, sig, old_message_ids, idsOwner, nonces, noncesOwner,
                   now, calls, accepted, passed, delivered, decoded,
                   probe>>

\* mutant of ValidHash: a failed lookup and a mismatch do not end the call
ValidHash_Continues(t) ==
    /\ pc[t] = "valid_hash"
    /\ Goto(t, NextCheck("valid_hash"))
    /\ UNCHANGED <<op, sig, loc, idsOwner, noncesOwner, delivered, decoded,
                   old_message_ids, nonces, now, calls, accepted, passed,
                   probe>>

\* the `?` on the lookup and valid_hash(block_hash)
ValidHash(t) ==
    /\ pc[t] = "valid_hash"
    /\ IF loc[t].block_hash # "error"
          /\ valid_hash(Msg(t), loc[t].block_hash) = "Ok"
       THEN /\ Goto(t, NextCheck("valid_hash"))
            /\ UNCHANGED <<op, sig, loc, idsOwner, noncesOwner, delivered,
                           decoded>>
       ELSE Finish(t, Rejection(t, IF loc[t].block_hash = "error"
                                   THEN "block_hash_query"
                                   ELSE "hash"))
    /\ UNCHANGED <<old_message_ids, nonces, now, calls, accepted,
                   passed, probe>>

\* ----------------------------------------------------- valid_nonce

\* The envelopes valid_nonce is called on directly
DirectEnvelopes == {m \in Envelopes : m.block_hash = TrustedHash}

\* A direct call of the public method valid_nonce on an envelope, up to
\* `let address = self.recover_sender_address()?;`
CallValidNonceOn(t, envelopes) ==
    /\ pc[t] = "idle"
    /\ calls < MaxCalls
    /\ calls' = calls + 1
    /\ \E m \in envelopes :
          LET r == recover_sender_address(m)
              s == [NoSignal EXCEPT !.msg = m]
          IN  IF r.kind = "Ok"
              THEN /\ op' = [op EXCEPT ![t] = "valid_nonce"]
                   /\ sig' = [sig EXCEPT ![t] = s]
                   /\ SetLoc(t, [loc[t] EXCEPT !.address = r.address])
                   /\ Goto(t, "lock_nonces")
              ELSE /\ returned' =
                         [task |-> t,
                          value |-> IF r.kind = "Err"
                                    THEN Err("signature")
                                    ELSE Panic("no_payload"),
                          sig |-> s, address |-> ""]
                   /\ UNCHANGED <<pc, op, sig, loc>>
    /\ UNCHANGED <<old_message_ids, idsOwner, nonces, noncesOwner, now,
                   accepted, passed, delivered, decoded, probe>>

CallValidNonce(t) == CallValidNonceOn(t, DirectEnvelopes)

\* `let address = self.recover_sender_address()?;`
NonceRecover(t) ==
    /\ pc[t] = "valid_nonce"
    /\ LET r == recover_sender_address(Msg(t))
       IN  IF r.kind = "Ok"
           THEN /\ SetLoc(t, [loc[t] EXCEPT !.address = r.address])
                /\ Goto(t, "lock_nonces")
                /\ UNCHANGED <<op, sig, idsOwner, noncesOwner, delivered,
                               decoded>>
           ELSE Finish(t, IF r.kind = "Err"
                          THEN Rejection(t, "signature")
                          ELSE Panic("no_payload"))
    /\ UNCHANGED <<old_message_ids, nonces, now, calls, accepted,
                   passed, probe>>

\* `let mut nonces = nonces.lock().unwrap();` and
\* `let nonces_per_subgraph = nonces.get(self.identifier...)`
LockNonces(t) ==
    /\ pc[t] = "lock_nonces"
    /\ NoncesLockFree
    /\ noncesOwner' = t
    /\ SetLoc(t, [loc[t] EXCEPT
                    !.nps = GetSubgraph(nonces, Msg(t).identifier)])
    /\ Goto(t, "nonces_match")
    /\ UNCHANGED <<op, sig, old_message_ids, idsOwner, nonces, now, calls,
                   accepted, passed, delivered, decoded, probe>>

\* mutant of NoncesMatch: the write keeps the written identifier only
NoncesMatch_DropsOthers(t) ==
    /\ pc[t] = "nonces_match"
    /\ LET d == nonce_decision(loc[t].nps, loc[t].address, Msg(t).nonce)
           key == <<Msg(t).identifier, loc[t].address>>
       IN  /\ nonces' = IF d.write
                        THEN Insert(EmptyMap, Msg(t).identifier, d.updated)
                        ELSE nonces
           /\ accepted' = IF d.outcome = "Ok"
                        THEN Insert(accepted, key,
                                    Append(AcceptedOf(key), Msg(t).nonce))
                        ELSE accepted
           /\ Finish(t, IF d.outcome = "Ok"
                        THEN Ok
                        ELSE Rejection(t, d.outcome))
    /\ UNCHANGED <<old_message_ids, now, calls, passed, probe>>

\* the match: compare, `nonces.insert(identifier, updated_nonces)`, return
NoncesMatch(t) ==
    /\ pc[t] = "nonces_match"
    /\ LET d == nonce_decision(loc[t].nps, loc[t].address, Msg(t).nonce)
           key == <<Msg(t).identifier, loc[t].address>>
       IN  /\ nonces' = IF d.write
                        THEN Insert(nonces, Msg(t).identifier, d.updated)
                        ELSE nonces
           /\ accepted' = IF d.outcome = "Ok"
                        THEN Insert(accepted, key,
                                    Append(AcceptedOf(key), Msg(t).nonce))
                        ELSE accepted
           /\ Finish(t, IF d.outcome = "Ok"
                        THEN Ok
                        ELSE Rejection(t, d.outcome))
    /\ UNCHANGED <<old_message_ids, now, calls, passed, probe>>

\* ------------------------------------------------------------- spec

Next ==
    \/ \E t \in Tasks : Deliver(t)
    \/ \E t \in Tasks : LockIds(t)
    \/ \E t \in Tasks : MatchEvent(t)
    \/ \E t \in Tasks : IdsContains(t)
    \/ \E t \in Tasks : IdsInsert(t)
    \/ \E t \in Tasks : ValidSender(t)
    \/ \E t \in Tasks : RegistryReturn(t)
    \/ \E t \in Tasks : RegistryAnswer(t)
    \/ \E t \in Tasks : NetworkReturn(t)
    \/ \E t \in Tasks : NetworkAnswer(t)
    \/ \E t \in Tasks : ValidTime(t)
    \/ \E t \in Tasks : BlockHashReturn(t)
    \/ \E t \in Tasks : ValidHash(t)
    \/ \E t \in Tasks : NonceRecover(t)
    \/ \E t \in Tasks : LockNonces(t)
    \/ \E t \in Tasks : NoncesMatch(t)

Spec == Init /\ [][Next]_vars

\* Concurrent direct calls of valid_nonce on one shared NoncesMap
NextNonce ==
    \/ \E t \in Tasks : CallValidNonce(t)
    \/ \E t \in Tasks : LockNonces(t)
    \/ \E t \in Tasks : NoncesMatch(t)

SpecNonce == Init /\ [][NextNonce]_vars

\* valid_time applied to a clock value and a nonce of the envelope's width
ProbeValidTime ==
    /\ \E timestamp \in 0..MaxInt, nonce \in MinInt..MaxInt,
          overflow_checks \in BOOLEAN :
          probe' = [fn |-> "valid_time", timestamp |-> timestamp,
                    nonce |-> nonce,
                    out |-> valid_time(overflow_checks, timestamp, nonce)]
    /\ UNCHANGED <<pc, op, sig, loc, returned, old_message_ids, idsOwner,
                   nonces, noncesOwner, now, calls, accepted, passed,
                   delivered, decoded>>

NextTime == ProbeValidTime

SpecTime == Init /\ [][NextTime]_vars

\* ------------------------------------------ building an envelope

\* Payloads a sender can sign, and how the hex digits of a signature
\* string are written: `sig.to_string()` writes them in lower case, and
\* the hex decoding of Signature::from_str reads either case.
ProbePayloads == Payloads \cup {"p2"}
HexForms == {"lower", "upper"}
BlockNumbers == {-1, 0, 1}

ProbeMalformed == [ok |-> FALSE, signer |-> "", over |-> "", form |-> "lower"]
ProbeSignatures ==
    {ProbeMalformed}
    \cup [ok : {TRUE}, signer : Keys, over : ProbePayloads, form : HexForms]

\* `wallet.sign_typed_data(payload)` and `sig.to_string()`
sign_typed_data(wallet, payload) ==
    [ok |-> TRUE, signer |-> wallet, over |-> payload, form |-> "lower"]

\* GraphcastMessage::new: `block_number.try_into().unwrap()` turns the
\* i64 argument into the u64 field and panics on a negative one.
new(identifier, payload, nonce, block_number, block_hash, signature) ==
    IF block_number < 0
    THEN [kind |-> "Panic", msg |-> NoEnvelope]
    ELSE [kind |-> "Ok",
          msg |-> [identifier |-> identifier, payload |-> payload,
                   nonce |-> nonce, block_number |-> block_number,
                   block_hash |-> block_hash, signature |-> signature]]

\* mutant of build: the nonce is not taken from the clock
build_StaleNonce(wallet, identifier, payload, block_number, block_hash, timestamp) ==
    IF payload = NoPayload
    THEN [kind |-> "Panic", msg |-> NoEnvelope]
    ELSE new(identifier, payload, timestamp - MSG_REPLAY_LIMIT,
             block_number, block_hash, sign_typed_data(wallet, payload))

\* GraphcastMessage::build, with the value Utc::now().timestamp() returns:
\* the `expect` on the payload, the signature, GraphcastMessage::new
build(wallet, identifier, payload, block_number, block_hash, timestamp) ==
    IF payload = NoPayload
    THEN [kind |-> "Panic", msg |-> NoEnvelope]
    ELSE new(identifier, payload, timestamp, block_number, block_hash,
             sign_typed_data(wallet, payload))

\* The envelopes that differ from msg in the payload or in the signature
\* string (and in nothing else).
Alterations(msg) ==
    {[msg EXCEPT !.payload = p] :
        p \in (ProbePayloads \cup {NoPayload}) \ {msg.payload}}
    \cup {[msg EXCEPT !.signature = g] :
             g \in ProbeSignatures \ {msg.signature}}

\* recover_sender_address applied to an envelope with any payload and any
\* signature string
ProbeRecover ==
    /\ \E identifier \in Identifiers,
          payload \in ProbePayloads \cup {NoPayload},
          signature \in ProbeSignatures :
          LET msg == [identifier |-> identifier, payload |-> payload,
                      nonce |-> 0, block_number |-> 0,
                      block_hash |-> TrustedHash, signature |-> signature]
          IN  probe' = [fn |-> "recover_sender_address", msg |-> msg,
                        out |-> recover_sender_address(msg)]
    /\ UNCHANGED <<pc, op, sig, loc, returned, old_message_ids, idsOwner,
                   nonces, noncesOwner, now, calls, accepted, passed,
                   delivered, decoded>>

\* build called with any arguments at the clock value timestamp
ProbeBuild ==
    /\ \E wallet \in Keys, identifier \in Identifiers,
          payload \in ProbePayloads \cup {NoPayload},
          block_number \in BlockNumbers, block_hash \in Hashes,
          timestamp \in 0..MaxNow :
          probe' = [fn |-> "build", wallet |-> wallet,
                    identifier |-> identifier, payload |-> payload,
                    block_number |-> block_number,
                    block_hash |-> block_hash, timestamp |-> timestamp,
                    out |-> build(wallet, identifier, payload, block_number,
                                  block_hash, timestamp)]
    /\ UNCHANGED <<pc, op, sig, loc, returned, old_message_ids, idsOwner,
                   nonces, noncesOwner, now, calls, accepted, passed,
                   delivered, decoded>>

\* recover_sender_address applied to the envelope just built, as it is or
\* with its payload or its signature string altered
ProbeRecoverBuilt ==
    /\ probe.fn = "build"
    /\ probe.out.kind = "Ok"
    /\ \E msg \in {probe.out.msg} \cup Alterations(probe.out.msg) :
          probe' = [fn |-> "recover_built", wallet |-> probe.wallet,
                    built |-> probe.out.msg, msg |-> msg,
                    out |-> recover_sender_address(msg)]
    /\ UNCHANGED <<pc, op, sig, loc, returned, old_message_ids, idsOwner,
                   nonces, noncesOwner, now, calls, accepted, passed,
                   delivered, decoded>>

\* valid_time applied to the envelope just built, at a clock value that
\* is not before the one build read
ProbeValidTimeBuilt ==
    /\ probe.fn = "build"
    /\ probe.out.kind = "Ok"
    /\ \E timestamp \in probe.timestamp..MaxInt,
          overflow_checks \in BOOLEAN :
          probe' = [fn |-> "valid_time_built", built |-> probe.out.msg,
                    built_at |-> probe.timestamp, timestamp |-> timestamp,
                    out |-> valid_time(overflow_checks, timestamp,
                                       probe.out.msg.nonce)]
    /\ UNCHANGED <<pc, op, sig, loc, returned, old_message_ids, idsOwner,
                   nonces, noncesOwner, now, calls, accepted, passed,
                   delivered, decoded>>

NextEnvelope ==
    \/ ProbeRecover
    \/ ProbeBuild
    \/ ProbeRecoverBuilt
    \/ ProbeValidTimeBuilt

SpecEnvelope == Init /\ [][NextEnvelope]_vars

\* ------------------------------------ one caller, one sender

\* valid_nonce called by one caller, one call after the other, on
\* envelopes of one sender with nonces that are far apart.
ScenarioNonces == {1000, 1002, 1005}
ScenarioTasks == {CHOOSE t \in Tasks : TRUE}
ScenarioEnvelopes ==
    [identifier : Identifiers,
     payload : {"p1"},
     nonce : ScenarioNonces,
     block_hash : {TrustedHash},
     signature : {[ok |-> TRUE, signer |-> "k1", over |-> "p1"]}]

NextScenario ==
    \/ \E t \in ScenarioTasks : CallValidNonceOn(t, ScenarioEnvelopes)
    \/ \E t \in ScenarioTasks : LockNonces(t)
    \/ \E t \in ScenarioTasks : NoncesMatch(t)

SpecScenario == Init /\ [][NextScenario]_vars

\* ----------------------------------------------------- peers

\* What `node_handle.peers()` lists: the peer's id and what the filter
\* subscription request to it will answer.  "self" is the local node.
LocalPeerId == "self"
PeerIds == {LocalPeerId, "a", "b"}
WakuPeerData == [peer_id : PeerIds, request : {"ok", "fail"}]

\* A multiaddress to connect to, and what add_peer and
\* connect_peer_with_id will answer for it.
Multiaddrs ==
    [address : {"a", "b"}, add_peer : {"ok", "fail"},
     connect : {"ok", "fail"}]

SeqsUpTo(S, n) == UNION {[1..k -> S] : k \in 0..n}

\* the string the map closure makes of one request's answer: the success
\* names the peer, the failure carries the error
SubscribeResult(peer) ==
    IF peer.request = "ok"
    THEN [kind |-> "Success", peer_id |-> peer.peer_id]
    ELSE [kind |-> "Failed", peer_id |-> ""]

\* the partition predicate of connect_multiaddresses
Connects(node) == node.add_peer = "ok" /\ node.connect = "ok"

ProbeFrame ==
    UNCHANGED <<pc, op, sig, loc, returned, old_message_ids, idsOwner,
                nonces, noncesOwner, now, calls, accepted, passed,
                delivered, decoded>>

\* filter_peer_subscriptions is called: `node_handle.peers()` and its `?`
FilterCall ==
    /\ probe.fn = ""
    /\ \E peers_ok \in BOOLEAN, peers \in SeqsUpTo(WakuPeerData, MaxPeers) :
          probe' = [fn |-> "filter_peer_subscriptions",
                    peers |-> IF peers_ok THEN peers ELSE <<>>,
                    i |-> 1, local_ok |-> TRUE, attempted |-> <<>>,
                    results |-> <<>>,
                    out |-> IF peers_ok THEN "" ELSE "RetrievePeersError"]
    /\ ProbeFrame

\* mutant of FilterPeer: the first failed request ends the call
FilterPeer_Aborts ==
    /\ probe.fn = "filter_peer_subscriptions"
    /\ probe.out = ""
    /\ probe.i <= Len(probe.peers)
    /\ \E local_ok \in BOOLEAN :
          LET peer == probe.peers[probe.i]
          IN  probe' =
                 IF ~local_ok
                 THEN [probe EXCEPT !.local_ok = FALSE, !.out = "Panic"]
                 ELSE IF peer.peer_id = LocalPeerId
                 THEN [probe EXCEPT !.i = @ + 1]
                 ELSE IF peer.request = "fail"
                 THEN [probe EXCEPT !.out = "ContentTopicsError"]
                 ELSE [probe EXCEPT
                         !.i = @ + 1,
                         !.attempted = Append(@, peer.peer_id),
                         !.results = Append(@, SubscribeResult(peer))]
    /\ ProbeFrame

\* mutant of FilterPeer: the local peer is not dropped
FilterPeer_DialsSelf ==
    /\ probe.fn = "filter_peer_subscriptions"
    /\ probe.out = ""
    /\ probe.i <= Len(probe.peers)
    /\ \E local_ok \in BOOLEAN :
          LET peer == probe.peers[probe.i]
          IN  probe' =
                 IF ~local_ok
                 THEN [probe EXCEPT !.local_ok = FALSE, !.out = "Panic"]
                 ELSE [probe EXCEPT
                         !.i = @ + 1,
                         !.attempted = Append(@, peer.peer_id),
                         !.results = Append(@, SubscribeResult(peer))]
    /\ ProbeFrame

\* The iterator takes one peer: the filter closure reads the local peer
\* id (and `expect`s it) and drops the local peer; the map closure makes
\* the request to the peer and turns its answer into a string.
FilterPeer ==
    /\ probe.fn = "filter_peer_subscriptions"
    /\ probe.out = ""
    /\ probe.i <= Len(probe.peers)
    /\ \E local_ok \in BOOLEAN :
          LET peer == probe.peers[probe.i]
          IN  probe' =
                 IF ~local_ok
                 THEN [probe EXCEPT !.local_ok = FALSE, !.out = "Panic"]
                 ELSE IF peer.peer_id = LocalPeerId
                 THEN [probe EXCEPT !.i = @ + 1]
                 ELSE [probe EXCEPT
                         !.i = @ + 1,
                         !.attempted = Append(@, peer.peer_id),
                         !.results = Append(@, SubscribeResult(peer))]
    /\ ProbeFrame

\* `.collect()` is done: `Ok(filter_subscribe_result)`
FilterReturn ==
    /\ probe.fn = "filter_peer_subscriptions"
    /\ probe.out = ""
    /\ probe.i > Len(probe.peers)
    /\ probe' = [probe EXCEPT !.out = "Ok"]
    /\ ProbeFrame

\* connect_multiaddresses is called with a list of addresses
ConnectCall ==
    /\ probe.fn = ""
    /\ \E nodes \in SeqsUpTo(Multiaddrs, MaxPeers) :
          probe' = [fn |-> "connect_multiaddresses", nodes |-> nodes,
                    i |-> 1, connected_peers |-> <<>>,
                    unconnected_peers |-> <<>>, out |-> ""]
    /\ ProbeFrame

\* `partition` takes one address: add_peer, then connect_peer_with_id
ConnectPeer ==
    /\ probe.fn = "connect_multiaddresses"
    /\ probe.out = ""
    /\ probe.i <= Len(probe.nodes)
    /\ LET node == probe.nodes[probe.i]
       IN  probe' =
              IF Connects(node)
              THEN [probe EXCEPT !.i = @ + 1,
                                 !.connected_peers = Append(@, node)]
              ELSE [probe EXCEPT !.i = @ + 1,
                                 !.unconnected_peers = Append(@, node)]
    /\ ProbeFrame

\* the two lists are logged and the function returns
ConnectReturn ==
    /\ probe.fn = "connect_multiaddresses"
    /\ probe.out = ""
    /\ probe.i > Len(probe.nodes)
    /\ probe' = [probe EXCEPT !.out = "Ok"]
    /\ ProbeFrame

NextPeers ==
    \/ FilterCall
    \/ FilterPeer
    \/ FilterReturn
    \/ ConnectCall
    \/ ConnectPeer
    \/ ConnectReturn

SpecPeers == Init /\ [][NextPeers]_vars

\* ------------------------------------------------------- node setup

\* The `port` argument: absent, or a string of at most MaxPortLen
\* characters.  `parse::<usize>` takes a non-empty string of digits.
MaxPortLen == 2
PortChars == {"6", "0", "-", "x"}
Digits == {"6", "0"}
NoPort == <<"none">>
PortArgs == {NoPort} \cup SeqsUpTo(PortChars, MaxPortLen)
DefaultPort == <<"6", "0", "0", "0", "0">>

\* `port.unwrap_or("60000").parse::<usize>()`
parse_port(port) ==
    LET text == IF port = NoPort THEN DefaultPort ELSE port
    IN  IF Len(text) > 0 /\ \A i \in 1..Len(text) : text[i] \in Digits
        THEN [kind |-> "Ok", port |-> text]
        ELSE [kind |-> "Err", port |-> <<>>]

\* `filter_protocol`: None, Some(true) or Some(false)
FilterProtocols == {"None", "Some(true)", "Some(false)"}

\* the protocol the peers are connected on
ConnectProtocol(filter_protocol) ==
    IF filter_protocol = "Some(false)" THEN "Relay" ELSE "Filter"

\* setup_node_handle is called: the port is parsed (`?`), and
\* WAKU_NODE_BOOT chooses boot_node_handle or the ordinary node
SetupCall ==
    /\ probe.fn = ""
    /\ \E port \in PortArgs, boot \in BOOLEAN,
          filter_protocol \in FilterProtocols :
          LET parsed == parse_port(port)
          IN  probe' = [fn |-> "setup_node_handle", boot |-> boot,
                        filter_protocol |-> filter_protocol,
                        port |-> parsed.port,
                        at |-> IF parsed.kind = "Ok" THEN "waku_new"
                               ELSE "done",
                        failed |-> IF parsed.kind = "Ok" THEN ""
                                   ELSE "parse",
                        handle |-> "none", protocol |-> "",
                        attempted |-> <<>>,
                        out |-> IF parsed.kind = "Ok" THEN ""
                                ELSE "ParsePortError"]
    /\ ProbeFrame

\* `waku_new(config).map_err(CreateNodeError)?`, in either mode
SetupWakuNew ==
    /\ probe.fn = "setup_node_handle"
    /\ probe.at = "waku_new"
    /\ \E ok \in BOOLEAN :
          probe' = IF ok
                   THEN [probe EXCEPT !.at = "start",
                                      !.handle = "initialized"]
                   ELSE [probe EXCEPT !.at = "done",
                                      !.failed = "waku_new",
                                      !.out = "CreateNodeError"]
    /\ ProbeFrame

\* `.start().map_err(CreateNodeError)?`, in either mode
SetupStart ==
    /\ probe.fn = "setup_node_handle"
    /\ probe.at = "start"
    /\ \E ok \in BOOLEAN :
          probe' = IF ok
                   THEN [probe EXCEPT
                           !.at = IF probe.boot THEN "relay_subscribe"
                                  ELSE "connect",
                           !.handle = "running"]
                   ELSE [probe EXCEPT !.at = "done",
                                      !.failed = "start",
                                      !.handle = "none",
                                      !.out = "CreateNodeError"]
    /\ ProbeFrame

\* boot_node_handle: `relay_subscribe(..).expect("Could not subscribe
\* to the topic")`
BootRelaySubscribe ==
    /\ probe.fn = "setup_node_handle"
    /\ probe.at = "relay_subscribe"
    /\ \E ok \in BOOLEAN :
          probe' = IF ok
                   THEN [probe EXCEPT !.at = "peer_id"]
                   ELSE [probe EXCEPT !.at = "done",
                                      !.failed = "relay_subscribe",
                                      !.handle = "none",
                                      !.out = "Panic"]
    /\ ProbeFrame

\* boot_node_handle: `peer_id().map_err(PeerInfoError)?`, then
\* `Ok(boot_node_handle)`
BootPeerId ==
    /\ probe.fn = "setup_node_handle"
    /\ probe.at = "peer_id"
    /\ \E ok \in BOOLEAN :
          probe' = IF ok
                   THEN [probe EXCEPT !.at = "done", !.out = "Ok"]
                   ELSE [probe EXCEPT !.at = "done",
                                      !.failed = "peer_id",
                                      !.handle = "none",
                                      !.out = "PeerInfoError"]
    /\ ProbeFrame

\* the ordinary node: gather_nodes, connect_multiaddresses on the
\* protocol `filter_protocol` selects, then `Ok(node_handle)`
SetupConnect ==
    /\ probe.fn = "setup_node_handle"
    /\ probe.at = "connect"
    /\ \E nodes \in SeqsUpTo(Multiaddrs, MaxPeers) :
          probe' = [probe EXCEPT
                      !.at = "done",
                      !.protocol = ConnectProtocol(probe.filter_protocol),
                      !.attempted = nodes,
                      !.out = "Ok"]
    /\ ProbeFrame

NextSetup ==
    \/ SetupCall
    \/ SetupWakuNew
    \/ SetupStart
    \/ BootRelaySubscribe
    \/ BootPeerId
    \/ SetupConnect

SpecSetup == Init /\ [][NextSetup]_vars

\* -------------------------------------------------- content topics

MaxTopics == 3
RadioNames == {"some-radio", "test"}
RadioVersions == {0, 1}
Subtopics == {"Qmyumyum", "Ymqumqum", "Qmother"}

\* mutant of build_content_topics: the topics come out in reverse order
build_content_topics_Reversed(radio_name, radio_version, subtopics) ==
    [i \in 1..Len(subtopics) |->
        [application_name |-> radio_name,
         version |-> radio_version,
         content_topic_name |-> subtopics[Len(subtopics) + 1 - i],
         encoding |-> "Proto"]]

\* `subtopics.iter().map(|subtopic| WakuContentTopic {..}).collect()`
build_content_topics(radio_name, radio_version, subtopics) ==
    [i \in 1..Len(subtopics) |->
        [application_name |-> radio_name,
         version |-> radio_version,
         content_topic_name |-> subtopics[i],
         encoding |-> "Proto"]]

\* build_content_topics is called on a radio name, a version and a list
\* of subtopics
ProbeContentTopics ==
    /\ \E radio_name \in RadioNames, radio_version \in RadioVersions,
          subtopics \in SeqsUpTo(Subtopics, MaxTopics) :
          probe' = [fn |-> "build_content_topics",
                    radio_name |-> radio_name,
                    radio_version |-> radio_version,
                    subtopics |-> subtopics,
                    out |-> build_content_topics(radio_name,
                                                 radio_version, subtopics)]
    /\ ProbeFrame

NextTopics == ProbeContentTopics

SpecTopics == Init /\ [][NextTopics]_vars

\* ---------------------------------------------------- network_check

\* What `node_handle.peers()` lists for the health check: the peer's id,
\* whether it is connected, and what connect_peer_with_id will answer
CheckedPeers ==
    [peer_id : PeerIds, connected : BOOLEAN, connect : {"ok", "fail"}]

\* mutant of NeedsReconnect: connected peers are reconnected too
NeedsReconnect_IgnoresConnected(peer, local_id) == peer.peer_id # local_id

\* the filter closure: not self and disconnected
NeedsReconnect(peer, local_id) ==
    (peer.peer_id # local_id) /\ ~peer.connected

\* network_check is called: `peer_id().expect(..)`, then
\* `node_handle.peers()` and its `?`
NetworkCheckCall ==
    /\ probe.fn = ""
    /\ \E local_ok \in BOOLEAN, peers_ok \in BOOLEAN,
          peers \in SeqsUpTo(CheckedPeers, MaxPeers) :
          probe' = [fn |-> "network_check",
                    local_ok |-> local_ok,
                    peers_ok |-> local_ok /\ peers_ok,
                    peers |-> IF local_ok /\ peers_ok THEN peers ELSE <<>>,
                    i |-> 1, attempted |-> <<>>, failures |-> 0,
                    out |-> IF ~local_ok THEN "Panic"
                            ELSE IF ~peers_ok THEN "RetrievePeersError"
                            ELSE ""]
    /\ ProbeFrame

\* the iterator takes one peer: the filter, connect_peer_with_id on the
\* peers it keeps, and the for_each that logs a failed attempt
NetworkCheckPeer ==
    /\ probe.fn = "network_check"
    /\ probe.out = ""
    /\ probe.i <= Len(probe.peers)
    /\ LET peer == probe.peers[probe.i]
       IN  probe' =
              IF NeedsReconnect(peer, LocalPeerId)
              THEN [probe EXCEPT
                      !.i = @ + 1,
                      !.attempted = Append(@, peer.peer_id),
                      !.failures = IF peer.connect = "fail"
                                   THEN @ + 1 ELSE @]
              ELSE [probe EXCEPT !.i = @ + 1]
    /\ ProbeFrame

\* the iterator is exhausted: `Ok(())`
NetworkCheckReturn ==
    /\ probe.fn = "network_check"
    /\ probe.out = ""
    /\ probe.i > Len(probe.peers)
    /\ probe' = [probe EXCEPT !.out = "Ok"]
    /\ ProbeFrame

NextNetworkCheck ==
    \/ NetworkCheckCall
    \/ NetworkCheckPeer
    \/ NetworkCheckReturn

SpecNetworkCheck == Init /\ [][NextNetworkCheck]_vars

\* ------------------------------------------ update_network_chainheads

MaxStatuses == 2
MaxChains == 1
NetworkNames == {"mainnet", "goerli"}
NoBlock == [hash |-> "", number |-> <<>>]

\* `chain_head_block`: a hash and a number, the number as text
HeadBlocks ==
    {[hash |-> "h1", number |-> <<"7">>],
     [hash |-> "h2", number |-> <<"1", "x">>]}
Chains ==
    [network : NetworkNames, chain_head_block : HeadBlocks \cup {NoBlock}]
IndexingStatuses == [chains : SeqsUpTo(Chains, MaxChains)]

DigitValue ==
    [c \in {"0", "1", "2", "3", "4", "5", "6", "7", "8", "9"} |->
        CASE c = "0" -> 0 [] c = "1" -> 1 [] c = "2" -> 2 [] c = "3" -> 3
          [] c = "4" -> 4 [] c = "5" -> 5 [] c = "6" -> 6 [] c = "7" -> 7
          [] c = "8" -> 8 [] c = "9" -> 9]

RECURSIVE DecimalValue(_)
DecimalValue(text) ==
    IF text = <<>> THEN 0
    ELSE 10 * DecimalValue(SubSeq(text, 1, Len(text) - 1))
         + DigitValue[text[Len(text)]]

\* `blk.number.as_str().parse::<u64>().unwrap_or_default()`
parse_number(text) ==
    IF Len(text) > 0 /\ \A i \in 1..Len(text) : text[i] \in DOMAIN DigitValue
    THEN DecimalValue(text)
    ELSE 0

\* The keys of the returned map, and NetworkName::from_string as any
\* function from the chain's network name to a key.
NetworkKeys == {"Mainnet", "Unknown"}
NetworkTables == [NetworkNames -> NetworkKeys]
from_string(table, network_name) == table[network_name]

\* the chains in the order the two nested iterators visit them
RECURSIVE Flatten(_)
Flatten(statuses) ==
    IF statuses = <<>> THEN <<>>
    ELSE Head(statuses).chains \o Flatten(Tail(statuses))

\* mutant of VisitChain: an entry that exists is kept (`or_insert` alone)
VisitChain_FirstWins(table, network_map, chain) ==
    IF chain.chain_head_block # NoBlock
       /\ from_string(table, chain.network) \notin DOMAIN network_map
    THEN Insert(network_map, from_string(table, chain.network),
                [hash |-> chain.chain_head_block.hash,
                 number |-> parse_number(chain.chain_head_block.number)])
    ELSE network_map

\* the body of the inner closure for one chain
VisitChain(table, network_map, chain) ==
    IF chain.chain_head_block # NoBlock
    THEN Insert(network_map, from_string(table, chain.network),
                [hash |-> chain.chain_head_block.hash,
                 number |-> parse_number(chain.chain_head_block.number)])
    ELSE network_map

\* the closure applied to every chain in turn
RECURSIVE VisitChains(_, _, _)
VisitChains(table, network_map, chains) ==
    IF chains = <<>> THEN network_map
    ELSE VisitChains(table, VisitChain(table, network_map, Head(chains)),
                     Tail(chains))

\* `statuses.into_iter().map(..).collect()`, then `network_map`
update_network_chainheads(table, statuses) ==
    VisitChains(table, EmptyMap, Flatten(statuses))

\* update_network_chainheads is called on a list of statuses
ProbeChainheads ==
    /\ probe.fn = ""
    /\ \E table \in NetworkTables,
          statuses \in SeqsUpTo(IndexingStatuses, MaxStatuses) :
          probe' = [fn |-> "update_network_chainheads",
                    table |-> table, statuses |-> statuses,
                    out |-> update_network_chainheads(table, statuses)]
    /\ ProbeFrame

NextChainheads == ProbeChainheads

SpecChainheads == Init /\ [][NextChainheads]_vars

\* ----------------------------------------------------- scheduling

\* One step of a started call of task t: everything but the delivery
HandlerStep(t) ==
    \/ LockIds(t)
    \/ MatchEvent(t)
    \/ IdsContains(t)
    \/ IdsInsert(t)
    \/ ValidSender(t)
    \/ RegistryReturn(t)
    \/ RegistryAnswer(t)
    \/ NetworkReturn(t)
    \/ NetworkAnswer(t)
    \/ ValidTime(t)
    \/ BlockHashReturn(t)
    \/ ValidHash(t)
    \/ NonceRecover(t)
    \/ LockNonces(t)
    \/ NoncesMatch(t)

\* The runtime polls every task that can run, the lookups answer, and
\* the asynchronous mutex of the seen set hands the lock to its waiters
\* in turn.
Fairness ==
    \A t \in Tasks :
       /\ WF_vars(HandlerStep(t))
       /\ SF_vars(LockIds(t))

SpecLive == Spec /\ Fairness

\* ---------------------------------------------------- block numbers

\* The envelope's block_number is unsigned, the constructor's argument
\* and the lookup's query variable are signed, all of the same width.
MaxUInt == (2 ^ IntBits) - 1

\* `try_into()` from the unsigned to the signed type of the width
unsigned_try_into_signed(x) ==
    IF x <= MaxInt THEN [kind |-> "Ok", val |-> x]
    ELSE [kind |-> "Err", val |-> 0]

\* What the status endpoint can answer a block-hash query with: the
\* request fails, the body does not parse, the body has no data, the
\* data has no hash, the data has a hash.
LookupResponses ==
    {"request_error", "json_error", "no_data", "no_hash", "hash"}

\* query_graph_node_network_block_hash past the conversion: the request
\* and its `?`, the body and its `?`, the match on the data
block_hash_response(response) ==
    CASE response = "request_error" -> [kind |-> "Err", val |-> "reqwest"]
      [] response = "json_error" -> [kind |-> "Err", val |-> "reqwest"]
      [] response = "no_data"
            -> [kind |-> "Err", val |-> "ParseResponseError"]
      [] response = "no_hash"
            -> [kind |-> "Err", val |-> "ParseResponseError"]
      [] response = "hash" -> [kind |-> "Ok", val |-> TrustedHash]

\* query_graph_node_network_block_hash: the query variable is
\* `block_number.try_into().unwrap()`, which panics when the conversion
\* fails; the request is made after it
query_graph_node_network_block_hash(network, block_number, response) ==
    IF unsigned_try_into_signed(block_number).kind = "Ok"
    THEN block_hash_response(response)
    ELSE [kind |-> "Panic", val |-> ""]

\* CallBook::block_hash is called with a network and the block number of
\* an envelope; the endpoint answers when the request is made
ProbeBlockHash ==
    /\ \E network \in NetworkNames, block_number \in 0..MaxUInt,
          response \in LookupResponses :
          probe' = [fn |-> "query_graph_node_network_block_hash",
                    network |-> network, block_number |-> block_number,
                    response |->
                       IF unsigned_try_into_signed(block_number).kind = "Ok"
                       THEN response ELSE "",
                    out |-> query_graph_node_network_block_hash(
                               network, block_number, response)]
    /\ ProbeFrame

\* GraphcastMessage::new is called with any block number of its
\* argument's type
ProbeNew ==
    /\ \E identifier \in Identifiers, block_number \in MinInt..MaxInt,
          block_hash \in Hashes :
          probe' = [fn |-> "new", block_number |-> block_number,
                    out |-> new(identifier, "p1", 0, block_number,
                                block_hash,
                                sign_typed_data("k1", "p1"))]
    /\ ProbeFrame

NextBlockNumber ==
    \/ ProbeBlockHash
    \/ ProbeNew

SpecBlockNumber == Init /\ [][NextBlockNumber]_vars

\* ------------------------------------------------------------- claims

Key(t) == <<Msg(t).identifier, loc[t].address>>
ReturnedKey == <<returned.sig.msg.identifier, returned.address>>
HasEntry(map, identifier, address) ==
    identifier \in DOMAIN map /\ address \in DOMAIN map[identifier]
Last(seq) == seq[Len(seq)]
Rejected(value) == value.variant \in {"InvalidMessage", "Err"}

\* C1: once a nonce n1 has been accepted for an (identifier, address), a
\* later message of that pair with a nonce n2 < n1 is rejected as stale by
\* the nonce check and the ledger entry of the pair is left as it was: the
\* nonce accepted last, no lower than n1.
C1_StaleStep(t) ==
    (/\ NoncesMatch(t)
     /\ \E i \in 1..Len(AcceptedOf(Key(t))) :
           Msg(t).nonce < AcceptedOf(Key(t))[i])
    => /\ Rejected(returned'.value)
       /\ returned'.value.reason = "stale_nonce"
       /\ nonces' = nonces
       /\ HasEntry(nonces', Msg(t).identifier, loc[t].address)
       /\ nonces'[Msg(t).identifier][loc[t].address]
             = Last(AcceptedOf(Key(t)))
       /\ \A i \in 1..Len(AcceptedOf(Key(t))) :
             AcceptedOf(Key(t))[i]
                <= nonces'[Msg(t).identifier][loc[t].address]

C1_StaleNonceRejected == [][\A t \in Tasks : C1_StaleStep(t)]_vars

C1_Witness ==
    /\ returned.value.reason = "stale_nonce"
    /\ ReturnedKey \in DOMAIN accepted
    /\ returned.sig.msg.nonce < Last(accepted[ReturnedKey])
    /\ nonces[ReturnedKey[1]][ReturnedKey[2]] = Last(accepted[ReturnedKey])

\* C2: a message whose (identifier, address) has no ledger entry (no entry
\* for the identifier, or none for the address under it) is rejected by
\* the nonce check, which records (identifier, address) -> nonce; the next
\* message of the pair with an equal or greater nonce is accepted.
C2_FirstSeenStep(t) ==
    NoncesMatch(t) =>
       /\ ~HasEntry(nonces, Msg(t).identifier, loc[t].address)
          => /\ Rejected(returned'.value)
             /\ returned'.value.reason
                   = (IF Msg(t).identifier \in DOMAIN nonces
                      THEN "first_address" ELSE "first_subgraph")
             /\ HasEntry(nonces', Msg(t).identifier, loc[t].address)
             /\ nonces'[Msg(t).identifier][loc[t].address] = Msg(t).nonce
       /\ (/\ HasEntry(nonces, Msg(t).identifier, loc[t].address)
           /\ AcceptedOf(Key(t)) = <<>>
           /\ Msg(t).nonce >= nonces[Msg(t).identifier][loc[t].address])
          => returned'.value = Ok

C2_FirstSeenRegistersAndRejects ==
    [][\A t \in Tasks : C2_FirstSeenStep(t)]_vars

C2_Witness ==
    /\ returned.value = Ok
    /\ ReturnedKey \in DOMAIN accepted
    /\ Len(accepted[ReturnedKey]) = 1

\* C3: whatever the interleaving of concurrent validations of messages of
\* one (identifier, address), the nonces of the accepted messages, in the
\* order of acceptance, never decrease.
C3_AcceptedNonDecreasing ==
    \A key \in DOMAIN accepted :
       \A i, j \in 1..Len(accepted[key]) :
          i < j => accepted[key][i] <= accepted[key][j]

\* an acceptance for a pair while a validation of a lower nonce of the
\* same pair waits for the lock
C3_Witness ==
    /\ returned.value = Ok
    /\ \E u \in Tasks :
          /\ pc[u] = "lock_nonces"
          /\ Key(u) = ReturnedKey
          /\ Msg(u).nonce < returned.sig.msg.nonce

\* C4 as claimed: every accepted message carries a nonce strictly greater
\* than the nonce of every message accepted before for its pair.
C4_StrictlyMonotonic ==
    [][\A t \in Tasks :
          (NoncesMatch(t) /\ returned'.value = Ok)
          => \A i \in 1..Len(AcceptedOf(Key(t))) :
                AcceptedOf(Key(t))[i] < Msg(t).nonce]_vars

\* C4 as amended: every accepted message carries a nonce greater than or
\* equal to the nonce of every message accepted before for its pair.
C4_MonotonicWithEquality ==
    [][\A t \in Tasks :
          (NoncesMatch(t) /\ returned'.value = Ok)
          => \A i \in 1..Len(AcceptedOf(Key(t))) :
                AcceptedOf(Key(t))[i] <= Msg(t).nonce]_vars

\* the same nonce accepted twice in a row for one pair
C4_Witness ==
    /\ returned.value = Ok
    /\ ReturnedKey \in DOMAIN accepted
    /\ Len(accepted[ReturnedKey]) >= 2
    /\ accepted[ReturnedKey][Len(accepted[ReturnedKey]) - 1]
          = returned.sig.msg.nonce

\* A delivery of a transport message returns to its caller in this step.
FinishesDelivery(t) ==
    /\ InHandler(t)
    /\ sig[t].event = "WakuMessage"
    /\ pc[t] # "idle"
    /\ pc'[t] = "idle"

DedupPcs == {"ids_contains", "ids_insert"}
AwaitPcs == {"await_registry", "await_network", "await_block_hash"}
SenderPcs == {"valid_sender", "await_registry", "registry_answer",
              "await_network", "network_answer"}
ValidityPcs ==
    SenderPcs \cup {"valid_time", "await_block_hash", "valid_hash",
                    "valid_nonce", "lock_nonces", "nonces_match"}

\* C5 as claimed: when a delivery of a message id returns after an earlier
\* delivery of the same id has returned, exactly one of the deliveries has
\* passed the dedup step and this one is rejected as a duplicate, whatever
\* the payloads are.
C5_ExactlyOnePasses ==
    [][\A t \in Tasks :
          (FinishesDelivery(t) /\ delivered[sig[t].message_id])
          => /\ passed'[sig[t].message_id] = 1
             /\ returned'.value = InvalidMessage("repeated")]_vars

\* C5 as amended: a delivery whose payload does not decode is rejected at
\* the decode, before the dedup step, and leaves the seen set alone; a
\* delivery that decodes leaves its id passed exactly once, and when an
\* earlier delivery of the id decoded too, it did not pass itself and is
\* rejected as a duplicate whatever its envelope is.
C5_DecodedDeliveriesPassOnce ==
    [][\A t \in Tasks :
          FinishesDelivery(t) =>
             /\ ~sig[t].decodable
                => /\ returned'.value = InvalidMessage("decode")
                   /\ old_message_ids' = old_message_ids
                   /\ passed' = passed
             /\ sig[t].decodable
                => /\ passed'[sig[t].message_id] = 1
                   /\ sig[t].message_id \in old_message_ids'
             /\ (sig[t].decodable /\ decoded[sig[t].message_id])
                => /\ returned'.value = InvalidMessage("repeated")
                   /\ pc[t] = "ids_contains"]_vars

\* a second decodable delivery of an id rejected as a duplicate
C5_Witness ==
    /\ returned.value = InvalidMessage("repeated")
    /\ returned.sig.decodable
    /\ decoded[returned.sig.message_id]
    /\ passed[returned.sig.message_id] = 1

\* C6: the membership test of the seen set and the insertion into it are
\* one critical section: no two handlers are between the test and the
\* insertion at once, and of the deliveries of one id, concurrent or not,
\* at most one passes the dedup step.
C6_CheckThenInsertAtomic ==
    /\ \A m \in MessageIds : passed[m] <= 1
    /\ \A t, u \in Tasks :
          (t # u /\ pc[t] \in DedupPcs) => pc[u] \notin DedupPcs
    /\ \A t \in Tasks : pc[t] \in DedupPcs => idsOwner = t

\* a handler between the test and the insertion while another handler,
\* called concurrently, waits for the lock
C6_Witness ==
    \E t, u \in Tasks :
       /\ t # u
       /\ pc[t] = "ids_insert"
       /\ pc[u] = "lock_ids"

\* C7 as claimed: while one validation is suspended in an upstream lookup
\* that has not returned, another delivery that is waiting to start its
\* processing can start it.
C7_HungLookupIsolated ==
    \A t, u \in Tasks :
       (/\ t # u
        /\ InHandler(t)
        /\ pc[t] \in AwaitPcs
        /\ pc[u] = "lock_ids")
       => ENABLED LockIds(u)

\* C8: the id of a decodable delivery is in the seen set before the first
\* validity check and from then on: during the checks, when a check
\* rejects the message, and at every later delivery of the id, which is
\* rejected as a duplicate.
C8_CheckStep(t) ==
    /\ (FinishesDelivery(t) /\ pc[t] \in ValidityPcs)
       => sig[t].message_id \in old_message_ids'
    /\ (IdsContains(t) /\ sig[t].message_id \in old_message_ids)
       => returned'.value = InvalidMessage("repeated")

C8_SeenNotAccepted ==
    /\ [](\A t \in Tasks :
            (InHandler(t) /\ pc[t] \in ValidityPcs)
            => sig[t].message_id \in old_message_ids)
    /\ [][/\ old_message_ids \subseteq old_message_ids'
          /\ \A t \in Tasks : C8_CheckStep(t)]_vars

\* a delivery rejected by a validity check, its id in the seen set
C8_Witness ==
    /\ returned.value.variant = "InvalidMessage"
    /\ returned.value.reason \in
          {"signature", "registry_query", "network_query", "stake", "time",
           "block_hash_query", "hash", "first_subgraph", "first_address",
           "stale_nonce"}
    /\ returned.sig.message_id \in old_message_ids

\* C9: valid_time accepts exactly when 0 <= now - nonce < MSG_REPLAY_LIMIT:
\* an age of 0 and an age of MSG_REPLAY_LIMIT - 1 are accepted; an age of
\* MSG_REPLAY_LIMIT or more and a nonce in the future are not: they are
\* answered with the error whenever the subtraction does not overflow (an
\* overflowing subtraction wraps to a negative age, or panics in a build
\* with overflow checks).
C9_FreshnessBoundary ==
    probe.fn = "valid_time" =>
       LET age == probe.timestamp - probe.nonce
       IN  /\ probe.out = "Ok" <=> (0 <= age /\ age < MSG_REPLAY_LIMIT)
           /\ age = 0 => probe.out = "Ok"
           /\ age = MSG_REPLAY_LIMIT - 1 => probe.out = "Ok"
           /\ (age >= MSG_REPLAY_LIMIT /\ age <= MaxInt)
              => probe.out = "Err"
           /\ (age < 0 /\ age >= MinInt) => probe.out = "Err"

\* the oldest age that is accepted
C9_Witness ==
    /\ probe.fn = "valid_time"
    /\ probe.out = "Ok"
    /\ probe.timestamp - probe.nonce = MSG_REPLAY_LIMIT - 1

\* C10: a message leaves the sender check for the rest of the validation
\* only if its signer was recovered, the registry lookup answered with an
\* indexer and the network lookup answered with enough stake; a failed
\* recovery, a failed lookup and a missing stake each end the call with a
\* rejection (or, for a signed envelope without payload, a panic), never
\* with an acceptance.
C10_SenderStep(t) ==
    /\ (ValidSender(t) /\ recover_sender_address(Msg(t)).kind # "Ok")
       => (pc'[t] = "idle" /\ returned'.value # Ok)
    /\ (ValidSender(t) /\ recover_sender_address(Msg(t)).kind = "Err")
       => Rejected(returned'.value)
    /\ (RegistryAnswer(t) /\ loc[t].registry # "indexer")
       => (pc'[t] = "idle" /\ Rejected(returned'.value))
    /\ (NetworkAnswer(t) /\ loc[t].network # "satisfied")
       => (pc'[t] = "idle" /\ Rejected(returned'.value))
    /\ (InHandler(t) /\ pc[t] \in SenderPcs
        /\ pc'[t] \notin SenderPcs \cup {"idle"})
       => /\ recover_sender_address(Msg(t)).kind = "Ok"
          /\ loc[t].address = recover_sender_address(Msg(t)).address
          /\ loc[t].registry = "indexer"
          /\ loc[t].network = "satisfied"

C10_SenderFailsClosed == [][\A t \in Tasks : C10_SenderStep(t)]_vars

\* a message rejected because the network lookup failed
C10_Witness ==
    /\ returned.value = InvalidMessage("network_query")
    /\ returned.sig.event = "WakuMessage"

\* C11: when the trusted lookup answered with the hash H, the hash check
\* lets an envelope that claims H go on to the next check, and rejects an
\* envelope that claims another hash with the hash-mismatch rejection.
C11_HashStep(t) ==
    (ValidHash(t) /\ loc[t].block_hash = TrustedHash)
    => IF Msg(t).block_hash = TrustedHash
       THEN /\ pc'[t] # "idle"
            /\ returned'.task = NoTask
       ELSE /\ pc'[t] = "idle"
            /\ Rejected(returned'.value)
            /\ returned'.value.reason = "hash"

C11_HashAgreement == [][\A t \in Tasks : C11_HashStep(t)]_vars

\* an envelope that claims another hash than the one looked up, rejected
C11_Witness ==
    /\ returned.value = InvalidMessage("hash")
    /\ returned.sig.msg.block_hash # TrustedHash

\* The rejection the spec names for each way a delivery can fail.
ClaimedRejection(reason) ==
    CASE reason = "decode" -> "DecodeError"
      [] reason = "repeated" -> "DuplicateMessage"
      [] reason \in {"signature", "stake"} -> "UnauthorizedSender"
      [] reason \in {"registry_query", "network_query", "block_hash_query"}
            -> "UpstreamQueryError"
      [] reason = "time" -> "InvalidTimestamp"
      [] reason = "hash" -> "HashMismatch"
      [] reason = "stale_nonce" -> "StaleNonce"
      [] reason \in {"first_subgraph", "first_address"}
            -> "FirstObservationFromSender"
      [] OTHER -> "UnrecognizedEvent"

\* C12 as claimed: the rejection the caller of the handler gets is of a
\* kind of its own for each way of failing (a failed lookup is of another
\* kind than an unauthorized sender), never the one generic
\* invalid-message kind.
C12_DistinctRejections ==
    (returned.sig.event # "" /\ Rejected(returned.value))
    => /\ returned.value.variant = ClaimedRejection(returned.value.reason)
       /\ returned.value.variant # "InvalidMessage"

\* C13 as claimed: recover_sender_address returns an error value when the
\* signature string does not parse and when the payload is absent,
\* whatever the signature string is; it never aborts.
C13_RecoverReturnsError ==
    probe.fn = "recover_sender_address" =>
       /\ probe.out.kind \in {"Ok", "Err"}
       /\ ~probe.msg.signature.ok => probe.out.kind = "Err"
       /\ probe.msg.payload = NoPayload => probe.out.kind = "Err"

\* The two signature strings are read as the same signature.
SameSignature(g, h) ==
    g.ok = h.ok /\ g.signer = h.signer /\ g.over = h.over

C18_BuiltEnvelopeIsFresh ==
    /\ (probe.fn = "build" /\ probe.out.kind = "Ok")
       => /\ probe.out.msg.nonce = probe.timestamp
          /\ probe.out.msg.identifier = probe.identifier
          /\ probe.out.msg.payload = probe.payload
          /\ probe.out.msg.block_number = probe.block_number
          /\ probe.out.msg.block_hash = probe.block_hash
          /\ probe.out.msg.signature
                = sign_typed_data(probe.wallet, probe.payload)
    /\ (/\ probe.fn = "valid_time_built"
        /\ probe.built_at <= probe.timestamp
        /\ probe.timestamp < probe.built_at + MSG_REPLAY_LIMIT)
       => probe.out = "Ok"

\* valid_time accepting an envelope at the clock value of its build
C18_Witness ==
    /\ probe.fn = "valid_time_built"
    /\ probe.timestamp = probe.built_at
    /\ probe.built.nonce = probe.built_at
    /\ probe.out = "Ok"

\* C14 as claimed: whatever the event is, the handler ends with an
\* accepted envelope or with a rejection, never with a panic.
C14_EveryEventClassified ==
    (returned.task # NoTask /\ returned.sig.event # "")
    => returned.value.variant \in {"Ok", "InvalidMessage"}

\* The ledger that holds nonce for 0xaaa under sg1 and nothing else.
ScenarioLedger(nonce) ==
    Insert(EmptyMap, "sg1", Insert(EmptyMap, "0xaaa", nonce))

\* C15: from the empty ledger, for sg1 and the sender 0xaaa: nonce 1000 is
\* rejected as a first observation and leaves the ledger {sg1: {0xaaa:
\* 1000}}; from there nonce 1005 is accepted and leaves the entry 1005;
\* from there nonce 1002 is rejected as stale and leaves the entry 1005.
C15_ScenarioStep(t) ==
    (/\ NoncesMatch(t)
     /\ Msg(t).identifier = "sg1"
     /\ loc[t].address = "0xaaa")
    => /\ (nonces = EmptyMap /\ Msg(t).nonce = 1000)
          => /\ Rejected(returned'.value)
             /\ returned'.value.reason = "first_subgraph"
             /\ nonces' = ScenarioLedger(1000)
       /\ (nonces = ScenarioLedger(1000) /\ Msg(t).nonce = 1005)
          => /\ returned'.value = Ok
             /\ nonces' = ScenarioLedger(1005)
       /\ (nonces = ScenarioLedger(1005) /\ Msg(t).nonce = 1002)
          => /\ Rejected(returned'.value)
             /\ returned'.value.reason = "stale_nonce"
             /\ nonces' = ScenarioLedger(1005)

C15_EndToEndScenario == [][\A t \in Tasks : C15_ScenarioStep(t)]_vars

\* the end of the scenario: the third call returned the stale rejection
\* for 1002 after 1005 was the one nonce accepted
C15_Witness ==
    /\ calls = 3
    /\ returned.value.reason = "stale_nonce"
    /\ returned.sig.msg.nonce = 1002
    /\ nonces = ScenarioLedger(1005)
    /\ accepted = Insert(EmptyMap, <<"sg1", "0xaaa">>, <<1005>>)

\* C16: when the ledger has a nonce recorded for the (identifier, address)
\* of the message and the recorded nonce is less than or equal to the
\* message's, the message is accepted and the entry of the pair becomes
\* the message's nonce; the other entries are left as they were.
C16_AcceptStep(t) ==
    (/\ NoncesMatch(t)
     /\ HasEntry(nonces, Msg(t).identifier, loc[t].address)
     /\ nonces[Msg(t).identifier][loc[t].address] <= Msg(t).nonce)
    => /\ returned'.value = Ok
       /\ nonces' = Insert(nonces, Msg(t).identifier,
                           Insert(nonces[Msg(t).identifier],
                                  loc[t].address, Msg(t).nonce))

C16_AcceptBranch == [][\A t \in Tasks : C16_AcceptStep(t)]_vars

\* an acceptance that raised the entry of its pair
C16_Witness ==
    /\ returned.value = Ok
    /\ ReturnedKey \in DOMAIN accepted
    /\ Len(accepted[ReturnedKey]) >= 2
    /\ accepted[ReturnedKey][Len(accepted[ReturnedKey]) - 1]
          < returned.sig.msg.nonce
    /\ nonces[ReturnedKey[1]][ReturnedKey[2]] = returned.sig.msg.nonce

\* C19: no step removes an identifier from the nonce ledger, an address
\* from under an identifier, or a message id from the seen set.
C19_LedgersOnlyGrow ==
    [][/\ DOMAIN nonces \subseteq DOMAIN nonces'
       /\ \A identifier \in DOMAIN nonces :
             DOMAIN nonces[identifier] \subseteq DOMAIN nonces'[identifier]
       /\ old_message_ids \subseteq old_message_ids']_vars

\* both ledgers written twice: two ids seen, two senders recorded under
\* one identifier
C19_Witness ==
    /\ Cardinality(old_message_ids) = 2
    /\ \E identifier \in DOMAIN nonces :
          Cardinality(DOMAIN nonces[identifier]) = 2

IsOtherPeer(peer) == peer.peer_id # LocalPeerId
IsConnected(node) == node.add_peer = "ok" /\ node.connect = "ok"
IsUnconnected(node) == ~IsConnected(node)
Taken(seq, i) == SubSeq(seq, 1, i - 1)

\* C20: a failed request to a peer is recorded at that peer's place and
\* nothing else comes of it: the results are, in order, one per peer
\* taken so far that is not the local node, a failure exactly where the
\* request failed; the call returns only when every peer was taken; it
\* ends otherwise only when the peer list could not be read or the local
\* peer id could not.  connect_multiaddresses puts every address taken in
\* exactly one of its two lists and returns when every address was taken.
C20_PeerFailuresAreSoft ==
    /\ probe.fn = "filter_peer_subscriptions"
       => LET others == SelectSeq(Taken(probe.peers, probe.i), IsOtherPeer)
          IN  /\ Len(probe.results) = Len(others)
              /\ \A j \in 1..Len(others) :
                    /\ probe.attempted[j] = others[j].peer_id
                    /\ probe.results[j].kind = "Failed"
                          <=> others[j].request = "fail"
                    /\ probe.results[j].kind = "Success"
                          <=> others[j].request = "ok"
              /\ probe.out \in {"", "Ok", "Panic", "RetrievePeersError"}
              /\ probe.out = "Ok" => probe.i = Len(probe.peers) + 1
              /\ probe.out = "Panic" => ~probe.local_ok
              /\ probe.out = "RetrievePeersError" => probe.attempted = <<>>
    /\ probe.fn = "connect_multiaddresses"
       => /\ probe.connected_peers
                = SelectSeq(Taken(probe.nodes, probe.i), IsConnected)
          /\ probe.unconnected_peers
                = SelectSeq(Taken(probe.nodes, probe.i), IsUnconnected)
          /\ probe.out \in {"", "Ok"}
          /\ probe.out = "Ok" => probe.i = Len(probe.nodes) + 1

\* a call that returned after a request failed and a later one succeeded
C20_Witness ==
    /\ probe.fn = "filter_peer_subscriptions"
    /\ probe.out = "Ok"
    /\ \E j \in 1..Len(probe.results) - 1 :
          /\ probe.results[j].kind = "Failed"
          /\ probe.results[j + 1].kind = "Success"

\* the variants of WakuHandlingError that node setup returns
SetupErrors == {"ParsePortError", "CreateNodeError", "PeerInfoError"}

\* C21: when the port does not parse, or the node cannot be created or
\* started, or (boot mode) the topic subscription fails, node setup
\* returns an error value to its caller, returns no running node handle
\* and has attempted no peer connection.
C21_StartupFailureReturnsError ==
    (/\ probe.fn = "setup_node_handle"
     /\ probe.failed \in {"parse", "waku_new", "start", "relay_subscribe"})
    => /\ probe.out \in SetupErrors
       /\ probe.handle # "running"
       /\ probe.attempted = <<>>

\* C22: build_content_topics returns one content topic per input
\* subtopic, in input order; each has the given radio name as its
\* application name, the given radio version as its version and the
\* subtopic as its topic name; an empty list gives an empty result.
C22_OneTopicPerSubtopic ==
    probe.fn = "build_content_topics"
    => /\ Len(probe.out) = Len(probe.subtopics)
       /\ \A i \in 1..Len(probe.subtopics) :
             /\ probe.out[i].application_name = probe.radio_name
             /\ probe.out[i].version = probe.radio_version
             /\ probe.out[i].content_topic_name = probe.subtopics[i]
       /\ (probe.subtopics = <<>> => probe.out = <<>>)

C22_Witness ==
    /\ probe.fn = "build_content_topics"
    /\ probe.subtopics = <<"Ymqumqum", "Qmyumyum", "Ymqumqum">>
    /\ probe.radio_version = 1
    /\ Len(probe.out) = 3

\* where a delivery is before the nonce check is entered
BeforeNoncePcs ==
    {"lock_ids", "match_event"} \cup DedupPcs \cup SenderPcs
    \cup {"valid_time", "await_block_hash", "valid_hash"}

\* the task's message has passed authorization, hash agreement and, at
\* some clock value read so far, freshness
PassedEarlierChecks(t) ==
    /\ recover_sender_address(Msg(t)).kind = "Ok"
    /\ loc[t].registry = "indexer"
    /\ loc[t].network = "satisfied"
    /\ loc[t].block_hash = Msg(t).block_hash
    /\ \E timestamp \in 0..now, overflow_checks \in BOOLEAN :
          valid_time(overflow_checks, timestamp, Msg(t).nonce) = "Ok"

\* C23: a delivery that ends at any step before the nonce check (event
\* match and decode, duplicate, sender authorization and its lookups,
\* freshness, hash agreement and its lookup) leaves the nonce ledger as it
\* was, and the nonce ledger changes only in the nonce step of a message
\* that passed authorization, freshness and hash agreement.
C23_Step ==
    /\ \A t \in Tasks :
          (InHandler(t) /\ pc[t] \in BeforeNoncePcs /\ pc'[t] = "idle")
          => nonces' = nonces
    /\ nonces' # nonces
       => \E t \in Tasks :
             /\ InHandler(t)
             /\ pc[t] = "nonces_match"
             /\ pc'[t] = "idle"
             /\ PassedEarlierChecks(t)

C23_ShortCircuitProtectsNonces == [][C23_Step]_vars

\* a hash mismatch is rejected while the ledger has an entry, and the
\* entry is still there
C23_Witness ==
    /\ returned.value = InvalidMessage("hash")
    /\ returned.sig.msg.identifier \in DOMAIN nonces

\* C24: the event is matched and the payload decoded before the seen set
\* is consulted: an event that is not a message event, or whose payload
\* does not decode, ends the call with a rejection and leaves the seen
\* set (its transport id is not added) and the nonce ledger as they were.
C24_Step(t) ==
    (/\ InHandler(t)
     /\ pc[t] = "match_event"
     /\ pc'[t] # "match_event"
     /\ ~(sig[t].event = "WakuMessage" /\ sig[t].decodable))
    => /\ pc'[t] = "idle"
       /\ Rejected(returned'.value)
       /\ returned'.value.reason \in
             {"decode", "unrecognized_event", "unrecognized_signal"}
       /\ old_message_ids' = old_message_ids
       /\ nonces' = nonces

C24_DecodePrecedesDedup == [][\A t \in Tasks : C24_Step(t)]_vars

\* an undecodable message event was rejected and its id is not in the
\* seen set, which holds another id
C24_Witness ==
    /\ returned.value = InvalidMessage("decode")
    /\ returned.sig.message_id \notin old_message_ids
    /\ old_message_ids # {}

\* the ids of the peers of a list that are disconnected and not the
\* local node, in the list's order
DisconnectedOthers(peers) ==
    LET keep(peer) == peer.peer_id # LocalPeerId /\ ~peer.connected
        kept == SelectSeq(peers, keep)
    IN  [k \in 1..Len(kept) |-> kept[k].peer_id]

\* C25: the health-check pass makes a reconnect attempt to exactly the
\* listed peers that are not the local node and are disconnected, never
\* to a connected peer or to the local node; a failed attempt does not
\* fail the pass, which returns Ok once the list is exhausted; the pass
\* returns an error only when the peer list could not be retrieved.
C25_ReconnectsDisconnectedOthers ==
    probe.fn = "network_check"
    => /\ probe.attempted = DisconnectedOthers(Taken(probe.peers, probe.i))
       /\ \A k \in 1..Len(probe.attempted) :
             probe.attempted[k] # LocalPeerId
       /\ probe.out = "Ok"
          => probe.attempted = DisconnectedOthers(probe.peers)
       /\ (probe.peers_ok /\ probe.i > Len(probe.peers) /\ probe.out # "")
          => probe.out = "Ok"
       /\ probe.out \notin {"", "Ok", "Panic"}
          => /\ probe.out = "RetrievePeersError"
             /\ probe.local_ok
             /\ ~probe.peers_ok
             /\ probe.attempted = <<>>

\* a pass over the local node, a connected peer and a disconnected peer
\* whose reconnect failed has returned Ok
C25_Witness ==
    /\ probe.fn = "network_check"
    /\ probe.out = "Ok"
    /\ probe.failures = 1
    /\ probe.attempted = <<"b">>
    /\ \E k \in 1..Len(probe.peers) : probe.peers[k].peer_id = LocalPeerId
    /\ \E k \in 1..Len(probe.peers) :
          probe.peers[k].peer_id = "a" /\ probe.peers[k].connected

\* the ids of a list of peers, in the list's order
PeerIdsOf(peers) == [k \in 1..Len(peers) |-> peers[k].peer_id]

\* C26: filter_peer_subscriptions makes no subscription request to the
\* local node's own peer id, and when it returns it has made one to every
\* other peer of the peer list, in the list's order.
C26_NoSelfSubscription ==
    probe.fn = "filter_peer_subscriptions"
    => /\ \A j \in 1..Len(probe.attempted) :
             probe.attempted[j] # LocalPeerId
       /\ probe.out = "Ok"
          => probe.attempted
                = PeerIdsOf(SelectSeq(probe.peers, IsOtherPeer))

\* a returned call whose peer list had the local node between two others
C26_Witness ==
    /\ probe.fn = "filter_peer_subscriptions"
    /\ probe.out = "Ok"
    /\ Len(probe.peers) = 3
    /\ probe.peers[2].peer_id = LocalPeerId
    /\ probe.attempted = <<"a", "b">>

\* the places of a list of chains that have a chain-head block and whose
\* network has the given key
HeadPlaces(table, chains, key) ==
    {i \in 1..Len(chains) :
        /\ chains[i].chain_head_block # NoBlock
        /\ table[chains[i].network] = key}

Max(S) == CHOOSE n \in S : \A m \in S : m <= n

\* C27: update_network_chainheads returns an entry for exactly the
\* networks that a chain with a chain-head block names, and the entry of
\* a network is the block pointer (hash and parsed number) of the last
\* such chain in input order; a chain without a chain-head block adds no
\* entry and overwrites none.
C27_LastChainHeadPerNetwork ==
    probe.fn = "update_network_chainheads"
    => LET chains == Flatten(probe.statuses)
       IN  /\ DOMAIN probe.out
                = {key \in NetworkKeys :
                      HeadPlaces(probe.table, chains, key) # {}}
           /\ \A key \in DOMAIN probe.out :
                 LET last ==
                        chains[Max(HeadPlaces(probe.table, chains, key))]
                 IN  /\ probe.out[key].hash = last.chain_head_block.hash
                     /\ probe.out[key].number
                           = parse_number(last.chain_head_block.number)

\* two statuses name one network with different chain-head blocks: the
\* entry is the later one's
C27_Witness ==
    /\ probe.fn = "update_network_chainheads"
    /\ Len(probe.statuses) = 2
    /\ LET chains == Flatten(probe.statuses)
       IN  /\ Len(chains) = 2
           /\ chains[1].network = "mainnet"
           /\ chains[2].network = "mainnet"
           /\ chains[1].chain_head_block.hash = "h2"
           /\ chains[2].chain_head_block.hash = "h1"
    /\ probe.out[probe.table["mainnet"]] = [hash |-> "h1", number |-> 7]

\* the entry of a pair in a ledger: whether there is one, and its nonce
EntryOf(map, identifier, address) ==
    IF HasEntry(map, identifier, address)
    THEN Some(map[identifier][address])
    ELSE [some |-> FALSE, val |-> 0]

\* C28: a nonce check of a message of (identifier, address) leaves the
\* entry of every other address under the identifier and of every address
\* under every other identifier as it was: none is added, removed or
\* changed.
C28_Step(t) ==
    (pc[t] \in {"lock_nonces", "nonces_match"} /\ pc'[t] # pc[t])
    => \A identifier \in Identifiers,
          address \in Addresses \cup {GarbageAddress} :
          <<identifier, address>> # Key(t)
          => EntryOf(nonces', identifier, address)
                = EntryOf(nonces, identifier, address)

C28_WriteTouchesOwnKey == [][\A t \in Tasks : C28_Step(t)]_vars

\* a check wrote the first entry of an identifier while another
\* identifier had two addresses recorded
C28_Witness ==
    /\ returned.value = Err("first_subgraph")
    /\ HasEntry(nonces, returned.sig.msg.identifier, returned.address)
    /\ \E identifier \in DOMAIN nonces :
          /\ identifier # returned.sig.msg.identifier
          /\ Cardinality(DOMAIN nonces[identifier]) = 2

\* no recorded nonce is ahead of the clock
NoFutureNonce ==
    \A identifier \in DOMAIN nonces :
       \A address \in DOMAIN nonces[identifier] :
          nonces[identifier][address] <= now

\* a message whose nonce is the present clock value is not found stale
HonestNotStale(t) ==
    (/\ InHandler(t)
     /\ pc[t] = "nonces_match"
     /\ pc'[t] = "idle"
     /\ Msg(t).nonce >= now)
    => returned'.value.reason # "stale_nonce"

\* C29: with the freshness check ahead of the nonce check and a clock
\* that does not go back, every nonce in the ledger, first observation or
\* update, is at most the clock value when it was written and ever
\* after, so a message of the pair that carries the present clock value
\* as its nonce is never rejected as stale.
C29_NoFutureLockout ==
    /\ []NoFutureNonce
    /\ [][\A t \in Tasks : HonestNotStale(t)]_vars

\* a pair whose entry was first recorded and then raised to the present
\* clock value by an accepted message
C29_Witness ==
    /\ returned.value = Ok
    /\ now > 0
    /\ returned.sig.msg.nonce = now
    /\ nonces[ReturnedKey[1]][ReturnedKey[2]] = now

\* the order of the two locks: the nonce lock is taken only by a handler
\* that holds the seen-set lock, and nobody waits for the seen-set lock
\* while holding the nonce lock
LockOrder ==
    \A t \in Tasks :
       /\ (InHandler(t) /\ noncesOwner = t) => idsOwner = t
       /\ (InHandler(t) /\ pc[t] = "lock_nonces") => idsOwner = t
       /\ pc[t] = "lock_ids" => noncesOwner # t

\* some started call can take a step whenever a call is started
NoDeadlock ==
    (\E t \in Tasks : pc[t] # "idle")
    => \E t \in Tasks : pc[t] # "idle" /\ ENABLED HandlerStep(t)

\* C30: the two locks are taken in one order (seen set first, nonce
\* ledger second), no reachable state has every started validation
\* blocked, and with lookups that return every started validation
\* returns.
C30_DeadlockFree ==
    /\ []LockOrder
    /\ []NoDeadlock
    /\ \A t \in Tasks : (pc[t] # "idle") ~> (pc[t] = "idle")

\* one handler waits for the seen-set lock while the other holds both
\* locks
C30_Witness ==
    \E t, u \in Tasks :
       /\ pc[t] = "lock_ids"
       /\ idsOwner = u
       /\ noncesOwner = u
       /\ pc[u] = "nonces_match"

\* C31 as claimed: for every block number of the envelope's unsigned
\* type the block-hash lookup returns a hash or a query error, and for
\* every block number the constructor is given it returns an envelope
\* whose block_number is that value; no block number makes either abort.
C31_BlockNumberConversionsTotal ==
    /\ probe.fn = "query_graph_node_network_block_hash"
       => probe.out.kind \in {"Ok", "Err"}
    /\ probe.fn = "new"
       => /\ probe.out.kind = "Ok"
          /\ probe.out.msg.block_number = probe.block_number

====
